---- MODULE Spec2Model ----
(***************************************************************************)
(* Registration backend of pse-hackathon (packages/backend/src/index.ts).  *)
(*                                                                         *)
(* Two express handlers share two stores:                                  *)
(*   POST /send-otp    validates the email, then awaits sendOtp(email)     *)
(*   POST /verify-otp  parses the body, awaits verifyOtp, mintHat,         *)
(*                     simulateContract, writeContract, getDb and the      *)
(*                     INSERT INTO accounts, with an early return at each  *)
(*                     failure.                                            *)
(* Each awaited call is one step of the invocation that makes it, so the   *)
(* invocations of different requests interleave at the awaits, as they do  *)
(* on the node event loop.  ./otp and ./db are not part of the sources at  *)
(* hand: the OTP store and the accounts table's uniqueness constraint are  *)
(* modelled from sections 3, 4.1 and 4.4 of the specification.             *)
(***************************************************************************)
EXTENDS Integers, Sequences, FiniteSets

\* ------------------------------------------------------------ bounds
MaxReqs == 2        \* /verify-otp invocations in one behaviour
MaxIssued == 2      \* OTP records issued in one behaviour
MaxTime == 2        \* the clock stops here
MaxSends == 2       \* submissions of the page's email form
MaxVerifies == 2    \* submissions of the page's OTP form

\* ------------------------------------------------------------ values
\* OTP time to live, in clock ticks (spec 4.1: "TTL is a fixed configuration constant")
TTL == 1

\* An email is <<local part, domain>>; email.endsWith('@pse.dev') reads the domain.
AcceptedDomain == "pse.dev"
Emails == {<<"alice", "pse.dev">>}
OutsideEmail == <<"eve", "other.org">>
NoEmail == <<>>
\* The JSON number 123 as the body's email: truthy, and no string.
NumberEmail == <<123>>
Codes == {"4821", "7777"}
Addresses == {"0xABC", "0xDEF"}
Commitment == "0x123"

Reqs == 1..MaxReqs

Malformed == [malformed |-> TRUE]
Bodies == [email : Emails, otp : Codes, address : Addresses,
           identityCommitment : {Commitment}]

\* The error key of a response body: absent, or the JSON of the raised error.
NoError == "absent"
NoRes == [status |-> 0, message |-> "", error |-> NoError]
Response(status, message, error) ==
    [status |-> status, message |-> message, error |-> error]

VARIABLES
    now,          \* the clock verifyOtp and sendOtp read
    otps,         \* the OTP store: a set of OtpRecords
    issuedCount,  \* OTP records issued so far
    accounts,     \* the accounts table: the sequence of rows inserted
    req,          \* req[r]: invocation r of POST /verify-otp
    sendLog,      \* the most recent POST /send-otp: its input, response and calls
    page          \* the signup page in one browser

vars == <<now, otps, issuedCount, accounts, req, sendLog>>

IsString(email) == Len(email) = 2
EndsWith(email, domain) == IsString(email) /\ email[2] = domain

\* res.json({ message, error }): JSON.stringify keeps the enumerable own fields of
\* the raised error.  message and stack of an Error are not enumerable, so an
\* error the collaborator adds no field to is sent as {}; otherwise the fields
\* the collaborator set, which tell the cause.
Serialized(cause) == {"{}", cause}

\* ------------------------------------------------------------ OTP store (./otp)
\* History: the id of the newest record held for email, 0 when there is none.
\* Every issue gives the email's record the next id, so two verify calls that
\* saw the same id ran with no OTP issued for that email in between.
current(store, email) ==
    IF \A o \in store : o.email # email THEN 0
    ELSE (CHOOSE o \in store :
            /\ o.email = email
            /\ \A p \in store : p.email = email => p.id <= o.id).id

\* History: the code of the record that issue(email) is about to replace.
replaced(store, email) ==
    IF \A o \in store : o.email # email THEN "none"
    ELSE (CHOOSE o \in store :
            o.email = email /\ o.id = current(store, email)).code

\* The record issue(email) stores.  id and prev are history: the record's number
\* among those issued for the email, and the code of the record it replaces.
OtpRecord(store, email, code, t) ==
    [email |-> email, code |-> code, issuedAt |-> t, expiresAt |-> t + TTL,
     consumed |-> FALSE, id |-> current(store, email) + 1,
     prev |-> replaced(store, email)]

\* issue(email) that adds the new record and leaves the email's earlier one.
issueKeepingOld(store, email, code, t) ==
    store \cup {OtpRecord(store, email, code, t)}

\* issue(email): overwrite the record for email with a fresh one.
issue(store, email, code, t) ==
    {o \in store : o.email # email} \cup {OtpRecord(store, email, code, t)}

\* The records verify accepts when it does not look at expiresAt.
usableIgnoringExpiry(store, email, code, t) ==
    {o \in store : /\ o.email = email
                   /\ o.code = code
                   /\ ~o.consumed}

\* The records verify(email, code) accepts at time t.
usable(store, email, code, t) ==
    {o \in store : /\ o.email = email
                   /\ o.code = code
                   /\ ~(t > o.expiresAt)
                   /\ ~o.consumed}

\* verify(email, code): the boolean it returns.
verifyOtp(store, email, code, t) == usable(store, email, code, t) # {}

\* verify(email, code) that leaves the accepted record as it found it.
consumeNothing(store, email, code, t) == store

\* verify(email, code): the store it leaves, the accepted record marked consumed.
consume(store, email, code, t) ==
    {IF o \in usable(store, email, code, t)
        THEN [o EXCEPT !.consumed = TRUE] ELSE o : o \in store}

\* History: verify(email, code) at time t finds a record with this code that
\* has not expired, consumed or not.
matches(store, email, code, t) ==
    \E o \in store : o.email = email /\ o.code = code /\ ~(t > o.expiresAt)

\* ------------------------------------------------------------ accounts table (./db)
\* An accounts table without the uniqueness constraint.
emailTakenNever(tbl, email) == FALSE

\* The uniqueness constraint on accounts.email.
emailTaken(tbl, email) == \E i \in 1..Len(tbl) : tbl[i].email = email

\* stmt.run(email, identityCommitment): the wrong field of the request body.
insertRowCommitment(tbl, email, address) ==
    Append(tbl, [email |-> email, address |-> Commitment])

\* stmt.run(email, address) of INSERT INTO accounts (email, address) VALUES (?, ?)
insertRow(tbl, email, address) ==
    Append(tbl, [email |-> email, address |-> address])

\* ------------------------------------------------------------ initial state
\* The signup page: useState<EmailField>() starts undefined (NoEmail), the OTP
\* form is not rendered, and no handler is running.
Sends == 1..MaxSends
Verifies == 1..MaxVerifies
IdleSend == [pc |-> "idle", form |-> "none", email |-> NoEmail, outcome |-> "none"]
IdleVerify == [pc |-> "idle", email |-> NoEmail, outcome |-> "none"]
IdlePage == [emailField |-> NoEmail,
             registering |-> FALSE,
             route |-> "/",
             sends |-> [s \in Sends |-> IdleSend],
             verifies |-> [v \in Verifies |-> IdleVerify]]

IdleReq == [pc |-> "idle", body |-> Malformed, res |-> NoRes,
            trace |-> <<>>, rec |-> 0, matched |-> FALSE, after |-> {}]

Init ==
    /\ now = 0
    /\ otps = {}
    /\ issuedCount = 0
    /\ accounts = <<>>
    /\ req = [r \in Reqs |-> IdleReq]
    /\ sendLog = [input |-> NoEmail, res |-> NoRes, calls |-> <<>>]
    /\ page = IdlePage

Tick ==
    /\ now < MaxTime
    /\ now' = now + 1
    /\ UNCHANGED <<otps, issuedCount, accounts, req, sendLog, page>>

\* ------------------------------------------------------------ POST /send-otp
SendInputs == Emails \cup {OutsideEmail, NoEmail, NumberEmail}

\* app.post('/send-otp'): the two validations, then await sendOtp(email), which
\* stores the record and hands the code to the email transport; either may throw.
\* A truthy email that is no string has no endsWith: line 38 throws a TypeError
\* outside the try, the handler's promise rejects and it sends no response.
SendOtp(email) ==
    /\ issuedCount < MaxIssued
    /\ UNCHANGED <<now, accounts, req, page>>
    /\ LET Log(res, calls) == [input |-> email, res |-> res, calls |-> calls]
           failed(e) == Response(500, "Failed to send OTP", e)
       IN IF email = NoEmail
          THEN /\ sendLog' = Log(Response(400, "Email is required", NoError), <<>>)
               /\ UNCHANGED <<otps, issuedCount>>
          ELSE IF ~IsString(email)
          THEN /\ sendLog' = Log(NoRes, <<>>)
               /\ UNCHANGED <<otps, issuedCount>>
          ELSE IF ~EndsWith(email, AcceptedDomain)
          THEN /\ sendLog' = Log(Response(400, "Invalid email domain", NoError), <<>>)
               /\ UNCHANGED <<otps, issuedCount>>
          ELSE \/ /\ \E e \in Serialized("store") :
                        sendLog' = Log(failed(e), <<"issue:throw">>)
                  /\ UNCHANGED <<otps, issuedCount>>
               \/ /\ \E code \in Codes :
                        otps' = issue(otps, email, code, now)
                  /\ issuedCount' = issuedCount + 1
                  /\ \/ sendLog' = Log(Response(200, "OTP sent successfully", NoError),
                                      <<"issue:ok", "send:ok">>)
                     \/ \E e \in Serialized("transport") :
                           sendLog' = Log(failed(e), <<"issue:ok", "send:throw">>)

\* ------------------------------------------------------------ POST /verify-otp
Event(call, result) == [call |-> call, result |-> result]

\* Invocation r moves on to its next awaited call.
Goto(r, event, pc) ==
    req' = [req EXCEPT ![r].pc = pc, ![r].trace = Append(@, event)]

\* Invocation r returns a response.
Reply(r, event, res) ==
    req' = [req EXCEPT ![r].pc = "done", ![r].trace = Append(@, event),
                       ![r].res = res]

\* Invocation r's promise rejects outside every try: no response is sent.
Reject(r, event) ==
    req' = [req EXCEPT ![r].pc = "rejected", ![r].trace = Append(@, event)]

\* VerifyOtpSchema.safeParse(req.body).success
safeParse(body) == body # Malformed

\* History: the invocations that have ended, with a response or without.
Ended == {q \in Reqs : req[q].pc \in {"done", "rejected"}}

\* Lines 58-71: a request arrives; the body is parsed.  Invocations are numbered
\* in the order they arrive; after is history, the invocations that had ended
\* when this one arrived.
Submit(r, body) ==
    /\ req[r].pc = "idle"
    /\ \A q \in Reqs : q < r => req[q].pc # "idle"
    /\ UNCHANGED <<now, otps, issuedCount, accounts, sendLog, page>>
    /\ IF ~safeParse(body)
       THEN req' = [req EXCEPT ![r].pc = "done", ![r].after = Ended,
                        ![r].res = Response(400, "Validation error(s)", NoError)]
       ELSE req' = [req EXCEPT ![r].pc = "verifyOtp", ![r].after = Ended,
                        ![r].body = body]

\* VerifyStep without the early return of line 75: the handler goes on to mint
\* whatever verifyOtp returned.
VerifyStepNoReturn(r) ==
    /\ req[r].pc = "verifyOtp"
    /\ UNCHANGED <<now, issuedCount, accounts, sendLog, page>>
    /\ LET email == req[r].body.email
           otp == req[r].body.otp
           isValid == verifyOtp(otps, email, otp, now)
           saw == [req EXCEPT ![r].rec = current(otps, email),
                              ![r].matched = matches(otps, email, otp, now)]
       IN \/ /\ Reject(r, Event("verifyOtp", "throw"))
             /\ UNCHANGED otps
          \/ /\ otps' = consume(otps, email, otp, now)
             /\ req' = [saw EXCEPT
                     ![r].pc = "mintHat",
                     ![r].trace = Append(@, Event("verifyOtp",
                                     IF isValid THEN "true" ELSE "false"))]

\* Lines 72-76: const isValid = await verifyOtp(email, otp); if (!isValid) return 400.
\* verifyOtp is awaited outside every try: when it throws, the handler's promise
\* rejects and no response is sent.
VerifyStep(r) ==
    /\ req[r].pc = "verifyOtp"
    /\ UNCHANGED <<now, issuedCount, accounts, sendLog, page>>
    /\ LET email == req[r].body.email
           otp == req[r].body.otp
           isValid == verifyOtp(otps, email, otp, now)
           saw == [req EXCEPT ![r].rec = current(otps, email),
                              ![r].matched = matches(otps, email, otp, now)]
       IN \/ /\ Reject(r, Event("verifyOtp", "throw"))
             /\ UNCHANGED otps
          \/ /\ otps' = consume(otps, email, otp, now)
             /\ IF ~isValid
                THEN req' = [saw EXCEPT
                        ![r].pc = "done",
                        ![r].trace = Append(@, Event("verifyOtp", "false")),
                        ![r].res = Response(400, "Invalid or expired OTP", NoError)]
                ELSE req' = [saw EXCEPT
                        ![r].pc = "mintHat",
                        ![r].trace = Append(@, Event("verifyOtp", "true"))]

\* MintStep without the check of mintRes.status (lines 87-89): only a throw of
\* mintHat itself is taken for a failure.
MintStepNoStatusCheck(r) ==
    /\ req[r].pc = "mintHat"
    /\ UNCHANGED <<now, otps, issuedCount, accounts, sendLog, page>>
    /\ \E out \in {"success", "reverted", "throw"} :
          IF out # "throw"
          THEN Goto(r, Event("mintHat", out), "admit")
          ELSE Reply(r, Event("mintHat", out),
                     Response(500, "Failed to mint hat", NoError))

\* MintStep that calls mintHat again when it has failed.
MintStepRetry(r) ==
    /\ req[r].pc = "mintHat"
    /\ UNCHANGED <<now, otps, issuedCount, accounts, sendLog, page>>
    /\ \E out \in {"success", "reverted", "throw"} :
          IF out = "success"
          THEN Goto(r, Event("mintHat", out), "admit")
          ELSE Goto(r, Event("mintHat", out), "mintHat")

\* Lines 78-92: await hatsClient.mintHat(...); a falsy mintRes.status throws too.
MintStep(r) ==
    /\ req[r].pc = "mintHat"
    /\ UNCHANGED <<now, otps, issuedCount, accounts, sendLog, page>>
    /\ \E out \in {"success", "reverted", "throw"} :
          IF out = "success"
          THEN Goto(r, Event("mintHat", out), "admit")
          ELSE Reply(r, Event("mintHat", out),
                     Response(500, "Failed to mint hat", NoError))

\* AdmitStep with writeContract not awaited inside the try: its rejection is not
\* caught and the handler goes on to the ledger.
AdmitStepWriteNotAwaited(r) ==
    /\ req[r].pc = "admit"
    /\ UNCHANGED <<now, otps, issuedCount, accounts, sendLog, page>>
    /\ LET failed == Response(500, "Failed to add account to Semaphore group", NoError)
           simulated == Append(req[r].trace, Event("simulateContract", "ok"))
       IN \/ Reply(r, Event("simulateContract", "throw"), failed)
          \/ \E out \in {"ok", "throw"} :
                req' = [req EXCEPT
                    ![r].pc = "ledger",
                    ![r].trace = Append(simulated, Event("writeContract", out))]

\* Lines 94-109: one try around await publicClient.simulateContract(...) and
\* await walletClient.writeContract(request); either may throw.
AdmitStep(r) ==
    /\ req[r].pc = "admit"
    /\ UNCHANGED <<now, otps, issuedCount, accounts, sendLog, page>>
    /\ LET failed == Response(500, "Failed to add account to Semaphore group", NoError)
           simulated == Append(req[r].trace, Event("simulateContract", "ok"))
       IN \/ Reply(r, Event("simulateContract", "throw"), failed)
          \/ req' = [req EXCEPT
                ![r].pc = "done",
                ![r].trace = Append(simulated, Event("writeContract", "throw")),
                ![r].res = failed]
          \/ req' = [req EXCEPT
                ![r].pc = "ledger",
                ![r].trace = Append(simulated, Event("writeContract", "ok"))]

\* Lines 111-124: await getDb() outside the try; then prepare, run and finalize
\* the INSERT, respond, and close the db in the finally.
\*   getDb throw   the promise rejects before the try: no response
\*   throw         prepare or run fails for a reason of the store's: no row
\*   unique        run violates the uniqueness of accounts.email: no row
\*   finalize      run has inserted the row and stmt.finalize() throws
LedgerStep(r) ==
    /\ req[r].pc = "ledger"
    /\ UNCHANGED <<now, otps, issuedCount, sendLog, page>>
    /\ LET email == req[r].body.email
           address == req[r].body.address
           failed(cause) == {Response(500, "Could not store account", e) :
                                e \in Serialized(cause)}
           opened == [req EXCEPT ![r].pc = "done",
                                 ![r].trace = Append(@, Event("getDb", "ok"))]
       IN \/ /\ Reject(r, Event("getDb", "throw"))
             /\ UNCHANGED accounts
          \/ /\ \E res \in failed("store") :
                   req' = [opened EXCEPT
                       ![r].trace = Append(@, Event("insert", "throw")),
                       ![r].res = res]
             /\ UNCHANGED accounts
          \/ /\ emailTaken(accounts, email)
             /\ \E res \in failed("unique") :
                   req' = [opened EXCEPT
                       ![r].trace = Append(@, Event("insert", "unique")),
                       ![r].res = res]
             /\ UNCHANGED accounts
          \/ /\ ~emailTaken(accounts, email)
             /\ accounts' = insertRow(accounts, email, address)
             /\ \/ req' = [opened EXCEPT
                       ![r].trace = Append(@, Event("insert", "ok")),
                       ![r].res = Response(200, "OTP verified successfully", NoError)]
                \/ \E res \in failed("finalize") :
                      req' = [opened EXCEPT
                          ![r].trace = Append(@, Event("insert", "finalize")),
                          ![r].res = res]

Next ==
    \/ Tick
    \/ \E email \in SendInputs : SendOtp(email)
    \/ \E r \in Reqs, body \in Bodies \cup {Malformed} : Submit(r, body)
    \/ \E r \in Reqs : VerifyStep(r)
    \/ \E r \in Reqs : MintStep(r)
    \/ \E r \in Reqs : AdmitStep(r)
    \/ \E r \in Reqs : LedgerStep(r)

Spec == Init /\ [][Next]_vars

\* Every awaited collaborator call returns or raises: an invocation that waits at
\* an await is resumed.
FairSpec ==
    /\ Spec
    /\ \A r \in Reqs : /\ WF_vars(VerifyStep(r))
                       /\ WF_vars(MintStep(r))
                       /\ WF_vars(AdmitStep(r))
                       /\ WF_vars(LedgerStep(r))

\* ------------------------------------------------------------ the signup page
\* What a fetch of the page can come back with: a response with response.ok
\* (200), a response without (400, 500), or a rejection of the fetch itself.
FetchOutcomes == {"200", "400", "500", "rejected"}

\* The OTP form is part of the render: {emailField && <Form ... />}.
OtpFormRendered == page.emailField # NoEmail

\* The email form is submitted: registerEmail(emailField) starts its fetch of
\* /send-otp.  form tells which of the two email forms it is: the page's own
\* ("page") or the RegisterEmail component ("component"), which shows a spinner
\* while registering.
SubmitEmail(s, form, email) ==
    /\ page.route = "/"
    /\ page.sends[s].pc = "idle"
    /\ \A t \in Sends : t < s => page.sends[t].pc # "idle"
    /\ page' = [page EXCEPT
            !.sends[s] = [pc |-> "fetch", form |-> form, email |-> email,
                          outcome |-> "none"],
            !.registering = IF form = "component" THEN TRUE ELSE @]
    /\ UNCHANGED vars

\* The fetch of /send-otp comes back: setEmail(emailField) when response.ok,
\* nothing but logging otherwise.  The component reads response.json() before it
\* looks at response.ok: a body that is no JSON lands in its catch ("badjson").
RegisterEmailReturns(s) ==
    /\ page.sends[s].pc = "fetch"
    /\ \E out \in FetchOutcomes \cup
                   (IF page.sends[s].form = "component" THEN {"badjson"} ELSE {}) :
          page' = [page EXCEPT
              !.sends[s].pc = "done",
              !.sends[s].outcome = out,
              !.emailField = IF out = "200" THEN page.sends[s].email ELSE @,
              !.registering = IF page.sends[s].form = "component" THEN FALSE ELSE @]
    /\ UNCHANGED vars

\* SubmitOtp with the OTP form rendered whatever emailField holds.
SubmitOtpAlwaysRendered(v) ==
    /\ page.route = "/"
    /\ page.verifies[v].pc = "idle"
    /\ \A w \in Verifies : w < v => page.verifies[w].pc # "idle"
    /\ page' = [page EXCEPT
            !.verifies[v] = [pc |-> "account", email |-> page.emailField,
                             outcome |-> "none"]]
    /\ UNCHANGED vars

\* The OTP form is submitted: verifyOtp(otpField) starts, with the emailField of
\* the render the form belongs to.
SubmitOtp(v) ==
    /\ page.route = "/"
    /\ OtpFormRendered
    /\ page.verifies[v].pc = "idle"
    /\ \A w \in Verifies : w < v => page.verifies[w].pc # "idle"
    /\ page' = [page EXCEPT
            !.verifies[v] = [pc |-> "account", email |-> page.emailField,
                             outcome |-> "none"]]
    /\ UNCHANGED vars

\* Lines 75-92: generateEmbeddedAccount and signMessage are awaited before the
\* try; when one rejects, verifyOtp ends there without a fetch.
GenerateAccount(v) ==
    /\ page.verifies[v].pc = "account"
    /\ \/ page' = [page EXCEPT !.verifies[v].pc = "fetch"]
       \/ page' = [page EXCEPT !.verifies[v].pc = "done",
                               !.verifies[v].outcome = "threw"]
    /\ UNCHANGED vars

\* Lines 94-153: the fetch of /verify-otp comes back: router.push("/signup") when
\* response.ok, nothing but logging otherwise.
VerifyOtpReturns(v) ==
    /\ page.verifies[v].pc = "fetch"
    /\ \E out \in FetchOutcomes :
          page' = [page EXCEPT
              !.verifies[v].pc = "done",
              !.verifies[v].outcome = out,
              !.route = IF out = "200" THEN "/signup" ELSE @]
    /\ UNCHANGED vars

PageNext ==
    \/ \E s \in Sends, form \in {"page", "component"},
          email \in Emails \cup {OutsideEmail} : SubmitEmail(s, form, email)
    \/ \E s \in Sends : RegisterEmailReturns(s)
    \/ \E v \in Verifies : SubmitOtp(v)
    \/ \E v \in Verifies : GenerateAccount(v)
    \/ \E v \in Verifies : VerifyOtpReturns(v)

PageSpec == Init /\ [][PageNext]_<<vars, page>>

\* ------------------------------------------------------------ reading an invocation
\* The outcome of section 6 that a response stands for.
Outcome(res) ==
    CASE res.status = 200 -> "ok"
      [] res.message = "Validation error(s)" -> "ValidationError"
      [] res.message = "Invalid or expired OTP" -> "OtpRejected"
      [] res.message = "Failed to mint hat" -> "CredentialMintFailed"
      [] res.message = "Failed to add account to Semaphore group" -> "GroupAdmissionFailed"
      [] res.message = "Could not store account" -> "LedgerWriteFailed"
      [] res.message \in {"Email is required", "Invalid email domain"} -> "ValidationError"
      [] res.message = "Failed to send OTP" -> "InfraError"
      [] OTHER -> "none"

\* Invocation r has called the collaborator.
Called(r, call) ==
    \E i \in 1..Len(req[r].trace) : req[r].trace[i].call = call

\* What the collaborator answered invocation r, "none" when it was not called.
Result(r, call) ==
    IF Called(r, call)
    THEN req[r].trace[CHOOSE i \in 1..Len(req[r].trace) :
                        req[r].trace[i].call = call].result
    ELSE "none"

\* Invocation r has ended with this outcome.
EndedWith(r, outcome) ==
    req[r].pc = "done" /\ Outcome(req[r].res) = outcome

\* The rows of the accounts table that hold this email.
RowsOf(email) == {i \in 1..Len(accounts) : accounts[i].email = email}

\* ------------------------------------------------------------ claims

\* C1: when verifyOtp returns false, the invocation ends with OtpRejected and
\* calls neither the Credential Issuer (mintHat), nor the Group Admission Client
\* (simulateContract, writeContract), nor the Registration Ledger (getDb, INSERT).
C1_NoCallsAfterOtpRejected ==
    \A r \in Reqs :
        Result(r, "verifyOtp") = "false" =>
            /\ EndedWith(r, "OtpRejected")
            /\ \A call \in {"mintHat", "simulateContract", "writeContract",
                            "getDb", "insert"} : ~Called(r, call)

\* C1 happens: an invocation whose OTP did not verify has ended, while a record
\* for its email is in the store.
C1_Witness ==
    \E r \in Reqs :
        /\ Result(r, "verifyOtp") = "false"
        /\ req[r].pc = "done"
        /\ req[r].rec # 0

C3_AdmissionFailureStops ==
    \A r \in Reqs :
        (Result(r, "simulateContract") = "throw" \/ Result(r, "writeContract") = "throw") =>
            /\ EndedWith(r, "GroupAdmissionFailed")
            /\ ~Called(r, "getDb")
            /\ ~Called(r, "insert")

\* C3 happens: the simulation succeeded, the chain write threw, and the
\* invocation has ended.
C3_Witness ==
    \E r \in Reqs :
        /\ Result(r, "simulateContract") = "ok"
        /\ Result(r, "writeContract") = "throw"
        /\ req[r].pc = "done"

\* The calls of a trace, in order.
Calls(trace) == [i \in 1..Len(trace) |-> trace[i].call]

\* C4: every row {email, address} of the accounts table was written by an
\* invocation for that email and address whose OTP verified true, whose mint
\* succeeded and whose admission (simulation and write) succeeded, in that order,
\* before its INSERT.
C4_RowsOnlyAfterAllSteps ==
    \A i \in 1..Len(accounts) :
        \E r \in Reqs :
            /\ req[r].body # Malformed
            /\ req[r].body.email = accounts[i].email
            /\ req[r].body.address = accounts[i].address
            /\ Calls(req[r].trace) = <<"verifyOtp", "mintHat", "simulateContract",
                                       "writeContract", "getDb", "insert">>
            /\ Result(r, "verifyOtp") = "true"
            /\ Result(r, "mintHat") = "success"
            /\ Result(r, "simulateContract") = "ok"
            /\ Result(r, "writeContract") = "ok"
            /\ Result(r, "insert") \in {"ok", "finalize"}

\* C4 happens: the table holds a row, written while another invocation for the
\* same email was rejected.
C4_Witness ==
    /\ Len(accounts) > 0
    /\ \E r \in Reqs :
          /\ req[r].body # Malformed
          /\ req[r].body.email = accounts[1].email
          /\ EndedWith(r, "OtpRejected")

\* verifyOtp answered invocation r, true or false.
Verified(r) == Result(r, "verifyOtp") \in {"true", "false"}

\* Invocation r went past the early return of line 75.
PassedOtp(r) == req[r].pc \in {"mintHat", "admit", "ledger"} \/ Called(r, "mintHat")

\* Invocations q and r submitted the same email and code, and no OTP was issued
\* for that email between their verifyOtp calls.
SameOtp(q, r) ==
    /\ Verified(q) /\ Verified(r)
    /\ req[q].body.email = req[r].body.email
    /\ req[q].body.otp = req[r].body.otp
    /\ req[q].rec = req[r].rec

\* C5: across the verify calls that follow one issue(E), verify(E, code) returns
\* true at most once: two calls with the same email and code that both returned
\* true are separated by a new OTP issued for E.
C5_VerifyTrueAtMostOnce ==
    \A q, r \in Reqs :
        (q # r /\ SameOtp(q, r) /\ Result(q, "verifyOtp") = "true")
            => Result(r, "verifyOtp") = "false"

\* C5 happens: verify(E, code) returned true for q; r arrived after q had ended,
\* submitted the same email and code while that code was still unexpired and no
\* new OTP had been issued, and got false.
C5_Witness ==
    \E q, r \in Reqs :
        /\ q \in req[r].after
        /\ SameOtp(q, r)
        /\ Result(q, "verifyOtp") = "true"
        /\ Result(r, "verifyOtp") = "false"
        /\ req[r].matched

\* The invocations whose verifyOtp call found record id of email with the code
\* they submitted, before it expired.
Racers(email, id) ==
    {r \in Reqs : /\ Verified(r)
                  /\ req[r].body.email = email
                  /\ req[r].rec = id
                  /\ req[r].matched}

\* C6: of the verify calls that race on one unexpired OTP record with the right
\* code, under every interleaving exactly one returns true and the others false
\* (the record is never consumed twice), and exactly that invocation goes on
\* past the OTP check.
C6_ExactlyOneRacerWins ==
    \A email \in Emails : \A id \in 1..MaxIssued :
        Racers(email, id) # {} =>
            /\ Cardinality({r \in Racers(email, id) :
                               Result(r, "verifyOtp") = "true"}) = 1
            /\ \A r \in Racers(email, id) :
                   PassedOtp(r) <=> Result(r, "verifyOtp") = "true"

\* C6 happens: two invocations were in flight together (the first to arrive had
\* not ended when the second arrived) on the same record with the right code;
\* the second to arrive won and the first was refused.
C6_Witness ==
    \E q, r \in Reqs :
        /\ q < r
        /\ Verified(q) /\ Verified(r)
        /\ q \notin req[r].after
        /\ {q, r} \subseteq Racers(req[r].body.email, req[r].rec)
        /\ Result(r, "verifyOtp") = "true"
        /\ Result(q, "verifyOtp") = "false"

\* At most one unconsumed, unexpired record per email.
AtMostOneLiveRecord ==
    \A email \in Emails :
        Cardinality({o \in otps : /\ o.email = email
                                  /\ ~o.consumed
                                  /\ ~(now > o.expiresAt)}) <= 1

\* The newest record of the email of invocation r replaced a record whose code
\* is the one r submits: r verifies the first of two codes issued in succession.
SubmitsReplacedCode(r) ==
    \E o \in otps : /\ o.email = req[r].body.email
                    /\ o.id = current(otps, req[r].body.email)
                    /\ o.prev = req[r].body.otp

\* The newest record of the email of invocation r holds the code r submits.
SubmitsNewestCode(r) ==
    \E o \in otps : /\ o.email = req[r].body.email
                    /\ o.id = current(otps, req[r].body.email)
                    /\ o.code = req[r].body.otp

C8_ExpiredNeverVerifies ==
    /\ \A o \in otps : o.expiresAt = o.issuedAt + TTL
    /\ \A r \in Reqs : Result(r, "verifyOtp") = "true" => req[r].matched
    /\ \A o \in otps :
          o.consumed => \E r \in Racers(o.email, o.id) :
                            Result(r, "verifyOtp") = "true"

\* C8 happens: the clock is past expiresAt of a record that was never consumed,
\* and an invocation that submitted its code got false.
C8_Witness ==
    \E r \in Reqs : \E o \in otps :
        /\ Result(r, "verifyOtp") = "false"
        /\ o.email = req[r].body.email
        /\ o.code = req[r].body.otp
        /\ o.id = req[r].rec
        /\ ~o.consumed
        /\ now > o.expiresAt
        /\ ~req[r].matched

C10_SuccessRecordsOneRow ==
    \A r \in Reqs :
        Result(r, "insert") = "ok" =>
            /\ EndedWith(r, "ok")
            /\ EndsWith(req[r].body.email, AcceptedDomain)
            /\ req[r].matched
            /\ Cardinality(RowsOf(req[r].body.email)) = 1
            /\ \A i \in RowsOf(req[r].body.email) :
                   accounts[i].address = req[r].body.address

\* C10 happens: an invocation has ended in success, and a later registration of
\* the same email with another address was refused by the table.
C10_Witness ==
    \E q, r \in Reqs :
        /\ Result(q, "insert") = "ok"
        /\ req[q].res.status = 200
        /\ Result(r, "insert") = "unique"
        /\ req[r].body.email = req[q].body.email
        /\ req[r].body.address # req[q].body.address

\* The inputs of POST /send-otp that are missing or do not end with the accepted
\* domain suffix.
InvalidSendInputs ==
    {email \in SendInputs : email = NoEmail \/ ~EndsWith(email, AcceptedDomain)}

\* No POST /send-otp has been handled yet.
NoSendYet == sendLog.res = NoRes /\ sendLog.input = NoEmail

\* C11: POST /send-otp for an email that is missing or does not end with the
\* accepted domain suffix returns a validation error, calls neither the OTP store
\* nor the email transport, and leaves the OTP store as it was.
C11_InvalidEmailRejected ==
    /\ []((~NoSendYet /\ sendLog.input \in InvalidSendInputs) =>
            /\ sendLog.res.status = 400
            /\ Outcome(sendLog.res) = "ValidationError"
            /\ sendLog.calls = <<>>)
    /\ [][\A email \in InvalidSendInputs :
            SendOtp(email) => (otps' = otps /\ issuedCount' = issuedCount)]_vars

\* The terminal outcomes of VerifyAndRegister.
TerminalOutcomes ==
    {"ok", "OtpRejected", "CredentialMintFailed", "GroupAdmissionFailed",
     "LedgerWriteFailed", "InfraError"}

\* C12: every invocation of VerifyAndRegister whose body parsed eventually
\* returns a terminal outcome, and only one: a response once sent is not sent
\* again; an error raised by the OTP store during verify, or by getDb, yields an
\* InfraError response.
C12_EveryInvocationAnswers ==
    /\ \A r \in Reqs :
          (req[r].pc = "verifyOtp") ~>
              (req[r].pc = "done" /\ Outcome(req[r].res) \in TerminalOutcomes)
    /\ [](\A r \in Reqs :
            (Result(r, "verifyOtp") = "throw" \/ Result(r, "getDb") = "throw")
                => EndedWith(r, "InfraError"))
    /\ [][\A r \in Reqs : req[r].pc = "done" => req'[r] = req[r]]_vars

\* The collaborator did not do what the handler called it for.
Failed(event) == event.result \notin {"true", "success", "ok"}

\* C13: within one invocation nothing is retried: verifyOtp, mintHat,
\* simulateContract, writeContract, getDb and the INSERT are each called at most
\* once, and a call that failed is the last call the invocation makes.
C13_NothingRetried ==
    \A r \in Reqs :
        LET t == req[r].trace
        IN /\ \A i, j \in 1..Len(t) : t[i].call = t[j].call => i = j
           /\ \A i \in 1..Len(t) : Failed(t[i]) => i = Len(t)
           /\ (\E i \in 1..Len(t) : Failed(t[i])) => req[r].pc \in {"done", "rejected"}

\* C13 happens: an invocation got as far as writeContract, which failed, and
\* has ended with four calls made.
C13_Witness ==
    \E r \in Reqs :
        /\ Result(r, "writeContract") = "throw"
        /\ Len(req[r].trace) = 4
        /\ req[r].pc = "done"

\* C14: after an invocation has ended in CredentialMintFailed, the OTP it
\* verified stays consumed: an invocation that arrives afterwards with the same
\* email and code, no OTP issued in between, ends in OtpRejected and never calls
\* mintHat.
C14_MintFailureKeepsOtpConsumed ==
    \A q \in Reqs :
        EndedWith(q, "CredentialMintFailed") =>
            /\ \A o \in otps :
                  (o.email = req[q].body.email /\ o.id = req[q].rec) => o.consumed
            /\ \A r \in {p \in Reqs : q \in req[p].after} :
                  SameOtp(q, r) =>
                      /\ EndedWith(r, "OtpRejected")
                      /\ ~Called(r, "mintHat")

\* C14 happens: q ended in CredentialMintFailed; r arrived afterwards with the
\* same email and code while the code was unexpired, and has ended.
C14_Witness ==
    \E q, r \in Reqs :
        /\ EndedWith(q, "CredentialMintFailed")
        /\ q \in req[r].after
        /\ SameOtp(q, r)
        /\ req[r].matched
        /\ req[r].pc = "done"

\* C15: the accounts table holds at most one row per email under every
\* interleaving; rows are only appended, never updated or deleted; and an INSERT
\* for an email that already has a row fails with LedgerWriteFailed and leaves
\* the table as it was.
C15_OneRowPerEmail ==
    /\ [](\A email \in Emails : Cardinality(RowsOf(email)) <= 1)
    /\ [](\A r \in Reqs :
            Result(r, "insert") = "unique" => EndedWith(r, "LedgerWriteFailed"))
    /\ [][/\ Len(accounts') >= Len(accounts)
          /\ \A i \in 1..Len(accounts) : accounts'[i] = accounts[i]]_vars
    /\ [][\A r \in Reqs :
            (LedgerStep(r) /\ emailTaken(accounts, req[r].body.email)) =>
                /\ accounts' = accounts
                /\ Result(r, "insert")' # "none" => Result(r, "insert")' \in {"unique", "throw"}
                /\ req'[r].pc = "done" => Outcome(req'[r].res) = "LedgerWriteFailed"]_vars

\* C15 happens: two invocations for one email with different addresses were in
\* flight together; the INSERT of one stored its row, the INSERT of the other
\* was refused by the uniqueness constraint.
C15_Witness ==
    \E q, r \in Reqs :
        /\ q # r
        /\ q \notin req[r].after /\ r \notin req[q].after
        /\ Result(q, "insert") \in {"ok", "finalize"}
        /\ Result(r, "insert") = "unique"
        /\ req[r].body.email = req[q].body.email
        /\ req[r].body.address # req[q].body.address
        /\ Len(accounts) = 1

\* The error responses sent so far, by either endpoint.
ErrorResponses ==
    {res \in {req[r].res : r \in Reqs} \cup {sendLog.res} : res.status >= 400}

\* C16: every error response of /send-otp and /verify-otp has a message that
\* tells its error category apart from the others, and its body never holds the
\* error object a collaborator raised.
C16_ErrorsDistinctAndOpaque ==
    \A a \in ErrorResponses :
        /\ Outcome(a) # "none"
        /\ a.error = NoError
        /\ \A b \in ErrorResponses : Outcome(a) # Outcome(b) => a.message # b.message

\* C17: a ledger write refused because the email is already registered and a
\* ledger write that failed for a reason of the store's own never give the caller
\* the same response.
C17_AlreadyRegisteredTellsApart ==
    \A q, r \in Reqs :
        (/\ Result(q, "insert") = "unique"
         /\ Result(r, "insert") \in {"throw", "finalize"})
            => req[q].res # req[r].res

\* The calls of the handler in the order of its source.
Order ==
    <<"verifyOtp", "mintHat", "simulateContract", "writeContract", "getDb", "insert">>

\* C18: within one invocation the calls are made one after the other in the
\* order verifyOtp, mintHat, simulateContract, writeContract, getDb, INSERT, each
\* only after the one before it has returned what the handler called it for
\* (true, success, a prepared request, a transaction), and the success response
\* is sent only after the INSERT has completed.
C18_StepsStrictlyOrdered ==
    \A r \in Reqs :
        LET t == req[r].trace
        IN /\ Len(t) <= Len(Order)
           /\ \A i \in 1..Len(t) : t[i].call = Order[i]
           /\ \A i \in 2..Len(t) : ~Failed(t[i - 1])
           /\ req[r].pc = "mintHat" =>
                 (Len(t) = 1 /\ t[1].result = "true")
           /\ req[r].pc = "admit" =>
                 (Len(t) = 2 /\ t[2].result = "success")
           /\ req[r].pc = "ledger" =>
                 (Len(t) = 4 /\ t[3].result = "ok" /\ t[4].result = "ok")
           /\ req[r].res.status = 200 =>
                 (Len(t) = 6 /\ t[6].result = "ok")

\* C18 happens: an invocation made all six calls and sent the success response,
\* while another one is waiting for its INSERT.
C18_Witness ==
    \E q, r \in Reqs :
        /\ req[q].res.status = 200
        /\ Len(req[q].trace) = 6
        /\ req[r].pc = "ledger"

\* The five counts of partial progress.
Rows == Len(accounts)
Admissions == Cardinality({r \in Reqs : Result(r, "writeContract") = "ok"})
Mints == Cardinality({r \in Reqs : Result(r, "mintHat") = "success"})
Verifications == Cardinality({r \in Reqs : Result(r, "verifyOtp") = "true"})

\* C19: under every interleaving, rows <= successful admission writes <=
\* successful mints <= verify calls that returned true <= OTPs issued, and none
\* of the five counts ever decreases: no row leaves the table, the number of
\* OTPs issued does not go down, and what a collaborator answered an invocation
\* stays answered.
C19_ProgressChain ==
    /\ [](/\ Rows <= Admissions
          /\ Admissions <= Mints
          /\ Mints <= Verifications
          /\ Verifications <= issuedCount)
    /\ [][/\ Len(accounts') >= Len(accounts)
          /\ issuedCount' >= issuedCount
          /\ \A r \in Reqs : \A i \in 1..Len(req[r].trace) :
                /\ i <= Len(req'[r].trace)
                /\ req'[r].trace[i] = req[r].trace[i]]_vars

\* C19 happens: two OTPs were issued and both verified, one invocation stored
\* its row and the other stopped at a failed mint.
C19_Witness ==
    /\ issuedCount = 2
    /\ Verifications = 2
    /\ Mints = 1
    /\ Admissions = 1
    /\ Rows = 1
    /\ \E r \in Reqs : EndedWith(r, "CredentialMintFailed")

\* C20: on the signup page the OTP handler runs only with emailField defined;
\* emailField is defined only once a fetch of /send-otp for that email has come
\* back with response.ok; a fetch that came back without, or was rejected, leaves
\* emailField as it was; and the page navigates to /signup only after a fetch
\* of /verify-otp has come back with response.ok.
C20_OtpFormGated ==
    /\ [](\A v \in Verifies :
            page.verifies[v].pc # "idle" => page.verifies[v].email # NoEmail)
    /\ [](OtpFormRendered =>
            \E s \in Sends : /\ page.sends[s].outcome = "200"
                             /\ page.sends[s].email = page.emailField)
    /\ [](page.route = "/signup" =>
            \E v \in Verifies : page.verifies[v].outcome = "200")
    /\ [][\A s \in Sends :
            (RegisterEmailReturns(s) /\ page'.sends[s].outcome # "200")
                => page'.emailField = page.emailField]_<<vars, page>>

\* C20 happens: one /send-otp fetch failed and another came back ok, the OTP
\* form was submitted twice, one /verify-otp fetch came back not ok and the
\* other ok, and the page has navigated.
C20_Witness ==
    /\ \E s, t \in Sends : /\ page.sends[s].outcome = "200"
                           /\ page.sends[t].outcome \in {"400", "500", "rejected", "badjson"}
    /\ \E v, w \in Verifies : /\ page.verifies[v].outcome = "200"
                              /\ page.verifies[w].outcome \in {"400", "500"}
    /\ page.route = "/signup"

====
